---- MODULE Spec2Model ----
(***************************************************************************)
(* Rate limiter with circuit breaker (RateLimiter, src/lib/rate-limiter.ts)*)
(* and the retrying API client built on it (ApiClient.retryWithBackoff,    *)
(* src/lib/error-handler.ts), as a state machine over a discrete clock.    *)
(***************************************************************************)
EXTENDS Integers, Sequences, FiniteSets, TLC

VARIABLES
    now,                    \* Date.now(): the wall clock, in milliseconds
    config,                 \* RateLimiter.config, after the constructor's merge
    requestsPerSecond,      \* RateLimiter.requestsPerSecond
    requestsPerMinute,      \* RateLimiter.requestsPerMinute
    requestsPerHour,        \* RateLimiter.requestsPerHour
    metrics,                \* RateLimiter.metrics
    consecutiveFailures,    \* RateLimiter.consecutiveFailures
    circuitBreakerOpenTime, \* RateLimiter.circuitBreakerOpenTime (Undefined when unset)
    last,                   \* history: the last RateLimiter call, when, and what it returned
    admitLog,               \* history: instants at which checkRateLimit returned true
    failRun,                \* history: recordFailure(true) calls since the counter was last zeroed
    denied,                 \* history: the last rejection by a window since the last admission
    throttledRun,           \* history: recordFailure(true) calls since the last recordSuccess,
                            \* counted up to the threshold
    followed,               \* history: how far the recorded outcomes follow FollowedPattern
    admitted,               \* history: the checkRateLimit calls that returned true since
                            \* construction or the last resetMetrics
    opened,                 \* history: when the breaker last went from closed to open, while
                            \* the reset time from then has not passed, and whether a
                            \* recordSuccess or resetMetrics followed
    latencySum,             \* history: the response times recorded since construction or
                            \* the last resetMetrics, added up
    scope,                  \* how far the calls of this behaviour are explored
    client,                 \* ApiClient: maxRetries, initialRetryDelay, maxRetryDelay
    runs,                   \* the retryWithBackoff invocations: where each one stands
    throttleSeen,           \* history: recordFailure(true) was called from outside the
                            \* client, or an attempt of the client failed with status 429
    rateLimiterInstance,    \* the module's singleton: the RateLimiter it refers to, or Null
    instances,              \* the RateLimiter objects constructed so far: 1..instances
    clients,                \* the ApiClient objects: the RateLimiter each one holds, Null
                            \* while it is not constructed
    passed                  \* history: the configurations passed to getRateLimiter so far

gvars == <<config, requestsPerSecond, requestsPerMinute, requestsPerHour, metrics,
           consecutiveFailures, circuitBreakerOpenTime>>
hvars == <<last, admitLog, failRun, throttledRun, denied, followed, admitted, opened,
           latencySum, scope>>
xvars == <<client, runs, throttleSeen>>
svars == <<rateLimiterInstance, instances, clients, passed>>
vars == <<now, gvars, hvars, xvars, svars>>

----------------------------------------------------------------------------
(* Bounds of the exploration *)

\* recordSuccess is explored while successfulRequests is below this
MaxSuccess == 1
\* with the windowed configuration, recordFailure is explored while failedRequests
\* is below this
MaxFailed == 1
\* with the windowed configuration, rejections are explored while
\* rateLimitedRequests is below this
MaxRateLimited == 2
\* with the breaker configuration, recordFailure and rejections are explored while
\* failedRequests, rateLimitedRequests are below this
MaxBreakerFailed == 3

\* The instants the clock visits: each horizon (1000, 60000, 3600000 ms, and the
\* breaker's reset time of 60000 ms) is straddled by the pair of instants 0 and 1.
Instants == {0, 1, 1000, 60000, 3600000}

\* The instants the clock visits, besides the ends of the sleeps, where the
\* exploration is by the minute
MinuteInstants == {0, 60000}

\* The clock of the client's invocations is explored up to this instant
MaxClock == 63000

\* ... and that of an invocation next to direct calls up to this one
MaxMixedClock == 3000

\* Response times handed to recordSuccess
Latencies == {100, 200}
MeanLatencies == {100, 200, 300}

\* with the windows of capacity 10, recordSuccess, recordFailure and rejections are
\* explored while their counters are below this
MaxTenth == 1
MaxMeanSuccess == 3
MaxDenials == 2
MaxRunFailed == 4
MaxRunRateLimited == 6
MaxRunClock == 200000
MaxLiveRateLimited == 120
MaxLiveClock == 130000

\* the retryWithBackoff invocations of the client
Runs == {"r1", "r2"}

\* the ApiClient an invocation is made on
Owner(r) == IF r = "r1" THEN "c1" ELSE "c2"

----------------------------------------------------------------------------
(* Program constants *)

Undefined == 0 - 1

\* rateLimiterInstance before the first getRateLimiter(); an ApiClient that has
\* not been constructed
Null == 0

SecondMs == 1000
MinuteMs == 60000
HourMs == 3600000

DefaultMaxPerSecond == 10
DefaultMaxPerMinute == 100
DefaultMaxPerHour == 1000
DefaultThreshold == 5
DefaultResetTime == 60000

DelaySecond == 1000
DelayMinute == 600
DelayHour == 3600

DefaultConfig ==
    [maxRequestsPerSecond |-> DefaultMaxPerSecond,
     maxRequestsPerMinute |-> DefaultMaxPerMinute,
     maxRequestsPerHour |-> DefaultMaxPerHour,
     circuitBreakerThreshold |-> DefaultThreshold,
     circuitBreakerResetTime |-> DefaultResetTime]

\* constructor: { ...defaults, ...config }
RateLimiter(cfg) ==
    [k \in DOMAIN DefaultConfig |-> IF k \in DOMAIN cfg THEN cfg[k] ELSE DefaultConfig[k]]

\* JavaScript's (v || d) on a number: 0 is falsy
Or(v, d) == IF v = 0 THEN d ELSE v

\* The configurations a RateLimiter is constructed with (the reset time is left
\* to the constructor's default), each with the extent its calls are explored to,
\* the configuration of the ApiClient and its retryWithBackoff invocations
NoClient == [x \in {} |-> 0]

WindowScope ==
    [config |-> [maxRequestsPerSecond |-> 2, maxRequestsPerMinute |-> 3,
                 maxRequestsPerHour |-> 4, circuitBreakerThreshold |-> 1],
     maxSuccess |-> MaxSuccess, maxFailed |-> MaxFailed,
     maxRateLimited |-> MaxRateLimited,
     client |-> NoClient, runs |-> {}, instants |-> Instants, until |-> HourMs, hinted |-> FALSE,
     latencies |-> Latencies, traced |-> FALSE, shared |-> FALSE]

BreakerScope ==
    [config |-> [maxRequestsPerSecond |-> 1, maxRequestsPerMinute |-> 1,
                 maxRequestsPerHour |-> 1, circuitBreakerThreshold |-> 2],
     maxSuccess |-> MaxSuccess, maxFailed |-> MaxBreakerFailed,
     maxRateLimited |-> MaxBreakerFailed,
     client |-> NoClient, runs |-> {}, instants |-> Instants, until |-> HourMs, hinted |-> FALSE,
     latencies |-> Latencies, traced |-> FALSE, shared |-> FALSE]

\* a breaker of threshold 3, explored to five failures
Threshold3Scope ==
    [config |-> [maxRequestsPerSecond |-> 1, maxRequestsPerMinute |-> 1,
                 maxRequestsPerHour |-> 1, circuitBreakerThreshold |-> 3],
     maxSuccess |-> MaxSuccess, maxFailed |-> MaxBreakerFailed + 2,
     maxRateLimited |-> MaxBreakerFailed + 2,
     client |-> NoClient, runs |-> {}, instants |-> Instants, until |-> HourMs, hinted |-> FALSE,
     latencies |-> Latencies, traced |-> FALSE, shared |-> FALSE]

\* minute and hour windows of capacity 10, where 9 entries are 90%
TenthScope ==
    [config |-> [maxRequestsPerMinute |-> 10, maxRequestsPerHour |-> 10],
     maxSuccess |-> MaxTenth, maxFailed |-> MaxTenth, maxRateLimited |-> MaxTenth,
     client |-> NoClient, runs |-> {}, instants |-> MinuteInstants, until |-> MinuteMs,
     hinted |-> FALSE,
     latencies |-> Latencies, traced |-> FALSE, shared |-> FALSE]

\* a client of two retries and its invocations
ClientScope ==
    [config |-> [maxRequestsPerSecond |-> 1, maxRequestsPerMinute |-> 3,
                 maxRequestsPerHour |-> 3, circuitBreakerThreshold |-> 2],
     maxSuccess |-> MaxSuccess, maxFailed |-> MaxBreakerFailed,
     maxRateLimited |-> MaxBreakerFailed,
     client |-> [maxRetries |-> 2, maxRetryDelay |-> 1500], runs |-> Runs,
     instants |-> MinuteInstants, until |-> MaxClock, hinted |-> TRUE,
     latencies |-> Latencies, traced |-> FALSE, shared |-> FALSE]

\* one invocation of the default client next to direct calls, within the first
\* seconds
MixedScope ==
    [config |-> [maxRequestsPerSecond |-> 1, maxRequestsPerMinute |-> 3,
                 maxRequestsPerHour |-> 3, circuitBreakerThreshold |-> 2],
     maxSuccess |-> MaxSuccess, maxFailed |-> MaxRateLimited,
     maxRateLimited |-> MaxRateLimited,
     client |-> [maxRetries |-> 2], runs |-> {"r1"},
     instants |-> {0}, until |-> MaxMixedClock, hinted |-> FALSE,
     latencies |-> Latencies, traced |-> FALSE, shared |-> FALSE]

\* three recorded response times between resets, within the first second
MeanScope ==
    [config |-> [maxRequestsPerSecond |-> 2, maxRequestsPerMinute |-> 3,
                 maxRequestsPerHour |-> 4, circuitBreakerThreshold |-> 1],
     maxSuccess |-> MaxMeanSuccess, maxFailed |-> MaxFailed,
     maxRateLimited |-> MaxFailed,
     client |-> NoClient, runs |-> {}, instants |-> {0, SecondMs}, until |-> SecondMs,
     hinted |-> FALSE, latencies |-> MeanLatencies, traced |-> FALSE, shared |-> FALSE]

\* one invocation of a client of three retries whose delay is capped at its second
\* doubling, on the default windows and a breaker of threshold 1, with its history
RunScope ==
    [config |-> [circuitBreakerThreshold |-> 1],
     maxSuccess |-> MaxSuccess, maxFailed |-> MaxRunFailed,
     maxRateLimited |-> MaxRunRateLimited,
     client |-> [maxRetries |-> 3, maxRetryDelay |-> 1500], runs |-> {"r1"},
     instants |-> {0}, until |-> MaxRunClock, hinted |-> TRUE,
     latencies |-> Latencies, traced |-> TRUE, shared |-> FALSE]

\* one invocation of a client configured with no retries
NoRetryScope ==
    [config |-> [circuitBreakerThreshold |-> 1],
     maxSuccess |-> MaxSuccess, maxFailed |-> MaxRunFailed,
     maxRateLimited |-> MaxRunRateLimited,
     client |-> [maxRetries |-> 0, maxRetryDelay |-> 1500], runs |-> {"r1"},
     instants |-> {0}, until |-> MaxRunClock, hinted |-> FALSE,
     latencies |-> Latencies, traced |-> TRUE, shared |-> FALSE]

\* one invocation of a client of two retries that meets a full minute window or an
\* open breaker at its third attempt, followed until the window and the breaker
\* have let it through
LiveScope ==
    [config |-> [maxRequestsPerSecond |-> 1, maxRequestsPerMinute |-> 2,
                 circuitBreakerThreshold |-> 2],
     maxSuccess |-> MaxSuccess, maxFailed |-> MaxRunFailed,
     maxRateLimited |-> MaxLiveRateLimited,
     client |-> [maxRetries |-> 2, maxRetryDelay |-> 1500], runs |-> {"r1"},
     instants |-> {0}, until |-> MaxLiveClock, hinted |-> FALSE,
     latencies |-> Latencies, traced |-> FALSE, shared |-> FALSE]

\* getRateLimiter() called without a configuration
NoConfig == [x \in {} |-> 0]

\* two ApiClients, one invocation on each, in a process whose code also calls
\* getRateLimiter with configurations of its own: nothing is constructed at first
SharedScope ==
    [config |-> NoConfig,
     configs |-> {[maxRequestsPerSecond |-> 1, circuitBreakerThreshold |-> 1],
                  [maxRequestsPerSecond |-> 2, circuitBreakerThreshold |-> 1]},
     maxSuccess |-> MaxSuccess, maxFailed |-> MaxRateLimited,
     maxRateLimited |-> MaxRateLimited,
     client |-> [maxRetries |-> 1, maxRetryDelay |-> 1500], runs |-> Runs,
     instants |-> {0}, until |-> MaxMixedClock, hinted |-> FALSE,
     latencies |-> Latencies, traced |-> FALSE, shared |-> TRUE]

Scopes == {WindowScope, BreakerScope}

maxRequestsPerSecond == Or(config.maxRequestsPerSecond, DefaultMaxPerSecond)
maxRequestsPerMinute == Or(config.maxRequestsPerMinute, DefaultMaxPerMinute)
maxRequestsPerHour == Or(config.maxRequestsPerHour, DefaultMaxPerHour)
circuitBreakerThreshold == Or(config.circuitBreakerThreshold, DefaultThreshold)
circuitBreakerResetTime == Or(config.circuitBreakerResetTime, DefaultResetTime)

----------------------------------------------------------------------------
(* Helpers *)

RECURSIVE FilterKeepingHorizon(_, _, _)
\* a filter that keeps a timestamp exactly one horizon old
FilterKeepingHorizon(s, n, horizon) ==
    IF s = <<>> THEN <<>>
    ELSE IF n - Head(s) <= horizon
         THEN <<Head(s)>> \o FilterKeepingHorizon(Tail(s), n, horizon)
         ELSE FilterKeepingHorizon(Tail(s), n, horizon)

RECURSIVE Filter(_, _, _)
\* Array.filter((t) => n - t < horizon), order kept
Filter(s, n, horizon) ==
    IF s = <<>> THEN <<>>
    ELSE IF n - Head(s) < horizon
         THEN <<Head(s)>> \o Filter(Tail(s), n, horizon)
         ELSE Filter(Tail(s), n, horizon)

Max(a, b) == IF a >= b THEN a ELSE b

Min(a, b) == IF a <= b THEN a ELSE b

RECURSIVE GCD(_, _)
GCD(a, b) == IF b = 0 THEN a ELSE GCD(b, a % b)

\* A non-negative rational as a reduced fraction
Frac(n, d) == LET g == GCD(n, d) IN [num |-> n \div g, den |-> d \div g]

InitialMetrics ==
    [totalRequests |-> 0,
     successfulRequests |-> 0,
     failedRequests |-> 0,
     rateLimitedRequests |-> 0,
     averageResponseTime |-> Frac(0, 1),
     lastRateLimitTime |-> Undefined,
     circuitBreakerOpen |-> FALSE]

\* a reset that keeps totalRequests
ResetKeepingTotal == [InitialMetrics EXCEPT !.totalRequests = metrics.totalRequests]

\* resetMetrics builds a record without lastRateLimitTime
ResetMetricsRecord == InitialMetrics

----------------------------------------------------------------------------
(* RateLimiter *)

\* the second and the minute window filtered with each other's horizon
cleanupTimestampsSwapped(n) ==
    [second |-> Filter(requestsPerSecond, n, MinuteMs),
     minute |-> Filter(requestsPerMinute, n, SecondMs),
     hour |-> Filter(requestsPerHour, n, HourMs)]

\* cleanupTimestamps(now): the three windows after the filters
cleanupTimestamps(n) ==
    [second |-> Filter(requestsPerSecond, n, SecondMs),
     minute |-> Filter(requestsPerMinute, n, MinuteMs),
     hour |-> Filter(requestsPerHour, n, HourMs)]

\* a breaker that is still open at the instant its reset time has passed
isCircuitBreakerOpenPastReset ==
    IF ~metrics.circuitBreakerOpen
    THEN [ret |-> FALSE, open |-> metrics.circuitBreakerOpen,
          openTime |-> circuitBreakerOpenTime, failures |-> consecutiveFailures]
    ELSE IF now > circuitBreakerOpenTime + circuitBreakerResetTime
         THEN [ret |-> FALSE, open |-> FALSE, openTime |-> Undefined, failures |-> 0]
         ELSE [ret |-> TRUE, open |-> metrics.circuitBreakerOpen,
               openTime |-> circuitBreakerOpenTime, failures |-> consecutiveFailures]

\* a breaker that closes at the first check after it opened
isCircuitBreakerOpenUntilChecked ==
    IF ~metrics.circuitBreakerOpen
    THEN [ret |-> FALSE, open |-> metrics.circuitBreakerOpen,
          openTime |-> circuitBreakerOpenTime, failures |-> consecutiveFailures]
    ELSE [ret |-> FALSE, open |-> FALSE, openTime |-> Undefined, failures |-> 0]

\* isCircuitBreakerOpen(): what it returns and the fields as it leaves them
isCircuitBreakerOpen ==
    IF ~metrics.circuitBreakerOpen
    THEN [ret |-> FALSE, open |-> metrics.circuitBreakerOpen,
          openTime |-> circuitBreakerOpenTime, failures |-> consecutiveFailures]
    ELSE IF now >= circuitBreakerOpenTime + circuitBreakerResetTime
         THEN [ret |-> FALSE, open |-> FALSE, openTime |-> Undefined, failures |-> 0]
         ELSE [ret |-> TRUE, open |-> metrics.circuitBreakerOpen,
               openTime |-> circuitBreakerOpenTime, failures |-> consecutiveFailures]

\* the checks in the order hour, minute, second
RejectingWindowHourFirst(w) ==
    IF Len(w.hour) >= maxRequestsPerHour THEN "hour"
    ELSE IF Len(w.minute) >= maxRequestsPerMinute THEN "minute"
    ELSE IF Len(w.second) >= maxRequestsPerSecond THEN "second"
    ELSE "none"

\* checks that reject only past the capacity
RejectingWindowPastCapacity(w) ==
    IF Len(w.second) > maxRequestsPerSecond THEN "second"
    ELSE IF Len(w.minute) > maxRequestsPerMinute THEN "minute"
    ELSE IF Len(w.hour) > maxRequestsPerHour THEN "hour"
    ELSE "none"

\* checks without that of the hour window
RejectingWindowNoHour(w) ==
    IF Len(w.second) >= maxRequestsPerSecond THEN "second"
    ELSE IF Len(w.minute) >= maxRequestsPerMinute THEN "minute"
    ELSE "none"

\* the window whose check rejects, given the cleaned windows; "none" when all pass
RejectingWindow(w) ==
    IF Len(w.second) >= maxRequestsPerSecond THEN "second"
    ELSE IF Len(w.minute) >= maxRequestsPerMinute THEN "minute"
    ELSE IF Len(w.hour) >= maxRequestsPerHour THEN "hour"
    ELSE "none"

\* the breaker has not opened, or the reset time since has passed
NoOpening == [at |-> Undefined, closed |-> FALSE]

\* the opening o after a recordSuccess or a resetMetrics
Followed(o) == IF o.at = Undefined THEN o ELSE [o EXCEPT !.closed = TRUE]

NoDenial == [why |-> "none", at |-> Undefined]

\* the record kept of a checkRateLimit or getRecommendedDelay call: when it was
\* made, what it returned (ok, why, delay), and the breaker flag and the last
\* rejection it found
Called(op, ok, why, delay) ==
    [op |-> op, at |-> now, ok |-> ok, why |-> why, delay |-> delay,
     wasOpen |-> metrics.circuitBreakerOpen, prior |-> denied]

\* the record kept of another call: its argument (ok) and, for
\* recordFailure(true), when it was made
Recorded(op, ok) ==
    [op |-> op, at |-> IF ok THEN now ELSE Undefined, ok |-> ok, why |-> "none",
     delay |-> 0, wasOpen |-> FALSE, prior |-> NoDenial]

\* The outcomes "threshold throttling failures, one success, threshold - 1
\* throttling failures", as recordFailure's argument or "success"
FollowedPattern ==
    [i \in 1..(2 * circuitBreakerThreshold) |->
        IF i = circuitBreakerThreshold + 1 THEN "success" ELSE "throttled"]

\* followed after one more recorded outcome; Undefined once the outcomes deviate
Follow(outcome) ==
    IF followed # Undefined /\ followed < 2 * circuitBreakerThreshold
       /\ FollowedPattern[followed + 1] = outcome
    THEN followed + 1
    ELSE Undefined

checkRateLimit ==
    /\ LET b == isCircuitBreakerOpen
           w == cleanupTimestamps(now)
           rej == RejectingWindow(w)
       IN  IF b.ret
           THEN /\ UNCHANGED <<requestsPerSecond, requestsPerMinute, requestsPerHour,
                               metrics, consecutiveFailures, circuitBreakerOpenTime>>
                /\ last' = Called("checkRateLimit", FALSE, "breaker", 0)
                /\ UNCHANGED <<admitLog, failRun, denied, admitted>>
           ELSE /\ consecutiveFailures' = b.failures
                /\ circuitBreakerOpenTime' = b.openTime
                /\ failRun' = IF metrics.circuitBreakerOpen THEN 0 ELSE failRun
                /\ IF rej # "none"
                   THEN /\ metrics.rateLimitedRequests < scope.maxRateLimited
                        /\ requestsPerSecond' = w.second
                        /\ requestsPerMinute' = w.minute
                        /\ requestsPerHour' = w.hour
                        /\ metrics' = [metrics EXCEPT
                                         !.circuitBreakerOpen = b.open,
                                         !.rateLimitedRequests = @ + 1,
                                         !.lastRateLimitTime = now]
                        /\ last' = Called("checkRateLimit", FALSE, rej, 0)
                        /\ denied' = [why |-> rej, at |-> now]
                        /\ UNCHANGED <<admitLog, admitted>>
                   ELSE /\ requestsPerSecond' = Append(w.second, now)
                        /\ requestsPerMinute' = Append(w.minute, now)
                        /\ requestsPerHour' = Append(w.hour, now)
                        /\ metrics' = [metrics EXCEPT
                                         !.circuitBreakerOpen = b.open,
                                         !.totalRequests = @ + 1]
                        /\ last' = Called("checkRateLimit", TRUE, "admitted", 0)
                        /\ admitLog' = Append(admitLog, now)
                        /\ admitted' = admitted + 1
                        /\ denied' = NoDenial
    /\ UNCHANGED <<now, config, throttledRun, followed, opened, latencySum, scope, svars>>

\* the average of the new response time and the old average
updateAverageOfTwo(avg, successfulRequests, responseTime) ==
    IF successfulRequests = 1 THEN Frac(responseTime, 1)
    ELSE Frac(avg.num + responseTime * avg.den, avg.den * 2)

\* updateAverageResponseTime(responseTime), run after successfulRequests++
updateAverageResponseTime(avg, successfulRequests, responseTime) ==
    Frac(avg.num * (successfulRequests - 1) + responseTime * avg.den,
         avg.den * successfulRequests)

\* a recordSuccess that leaves consecutiveFailures as it is
recordSuccessKeepingFailures(responseTime) ==
    /\ metrics.successfulRequests < scope.maxSuccess
    /\ consecutiveFailures' = consecutiveFailures
    /\ metrics' = [metrics EXCEPT
                     !.successfulRequests = @ + 1,
                     !.averageResponseTime =
                         updateAverageResponseTime(@, metrics.successfulRequests + 1, responseTime),
                     !.circuitBreakerOpen = FALSE]
    /\ circuitBreakerOpenTime' =
           IF metrics.circuitBreakerOpen THEN Undefined ELSE circuitBreakerOpenTime
    /\ last' = Recorded("recordSuccess", FALSE)
    /\ failRun' = 0
    /\ throttledRun' = 0
    /\ followed' = Follow("success")
    /\ latencySum' = latencySum + responseTime
    /\ opened' = Followed(opened)
    /\ UNCHANGED <<now, config, requestsPerSecond, requestsPerMinute, requestsPerHour,
                   admitLog, denied, admitted, scope, svars>>

recordSuccess(responseTime) ==
    /\ metrics.successfulRequests < scope.maxSuccess
    /\ consecutiveFailures' = 0
    /\ metrics' = [metrics EXCEPT
                     !.successfulRequests = @ + 1,
                     !.averageResponseTime =
                         updateAverageResponseTime(@, metrics.successfulRequests + 1, responseTime),
                     !.circuitBreakerOpen = FALSE]
    /\ circuitBreakerOpenTime' =
           IF metrics.circuitBreakerOpen THEN Undefined ELSE circuitBreakerOpenTime
    /\ last' = Recorded("recordSuccess", FALSE)
    /\ failRun' = 0
    /\ throttledRun' = 0
    /\ followed' = Follow("success")
    /\ latencySum' = latencySum + responseTime
    /\ opened' = Followed(opened)
    /\ UNCHANGED <<now, config, requestsPerSecond, requestsPerMinute, requestsPerHour,
                   admitLog, denied, admitted, scope, svars>>

\* a test that is passed only beyond the threshold
ThresholdExceeded(failures) == failures > circuitBreakerThreshold

\* the test of recordFailure that calls openCircuitBreaker()
ThresholdReached(failures) == failures >= circuitBreakerThreshold

recordFailure(isRateLimited) ==
    /\ metrics.failedRequests < scope.maxFailed
    /\ isRateLimited => metrics.rateLimitedRequests < scope.maxRateLimited
    /\ IF isRateLimited
       THEN /\ consecutiveFailures' = consecutiveFailures + 1
            /\ IF ThresholdReached(consecutiveFailures + 1)
               THEN \* openCircuitBreaker()
                    /\ metrics' = [metrics EXCEPT
                                     !.failedRequests = @ + 1,
                                     !.rateLimitedRequests = @ + 1,
                                     !.circuitBreakerOpen = TRUE]
                    /\ circuitBreakerOpenTime' = now
               ELSE /\ metrics' = [metrics EXCEPT
                                     !.failedRequests = @ + 1,
                                     !.rateLimitedRequests = @ + 1]
                    /\ UNCHANGED circuitBreakerOpenTime
            /\ failRun' = failRun + 1
            /\ throttledRun' = Min(throttledRun + 1, circuitBreakerThreshold)
       ELSE /\ metrics' = [metrics EXCEPT !.failedRequests = @ + 1]
            /\ UNCHANGED <<consecutiveFailures, circuitBreakerOpenTime, failRun,
                           throttledRun>>
    /\ last' = Recorded("recordFailure", isRateLimited)
    /\ opened' = IF /\ isRateLimited
                    /\ ~metrics.circuitBreakerOpen
                    /\ metrics'.circuitBreakerOpen
                 THEN [at |-> now, closed |-> FALSE]
                 ELSE opened
    /\ followed' = Follow(IF isRateLimited THEN "throttled" ELSE "failed")
    /\ UNCHANGED <<now, config, requestsPerSecond, requestsPerMinute, requestsPerHour,
                   admitLog, denied, admitted, latencySum, scope, svars>>

resetMetrics ==
    /\ metrics' = ResetMetricsRecord
    /\ consecutiveFailures' = 0
    /\ last' = Recorded("resetMetrics", FALSE)
    /\ failRun' = 0
    /\ followed' = Undefined
    /\ latencySum' = 0
    /\ admitted' = 0
    /\ opened' = Followed(opened)
    /\ UNCHANGED <<now, config, requestsPerSecond, requestsPerMinute, requestsPerHour,
                   circuitBreakerOpenTime, admitLog, throttledRun, denied, scope, svars>>

\* the whole reset time, however long the breaker has been open
BreakerDelayInFull == circuitBreakerResetTime

\* getRecommendedDelay() under an open breaker: the rest of the reset time
BreakerDelay == Max(0, circuitBreakerOpenTime + circuitBreakerResetTime - now)

\* delays for full windows only
WindowDelayWhenFull ==
    IF Len(requestsPerSecond) >= maxRequestsPerSecond THEN DelaySecond
    ELSE IF Len(requestsPerMinute) >= maxRequestsPerMinute THEN DelayMinute
    ELSE IF Len(requestsPerHour) >= maxRequestsPerHour THEN DelayHour
    ELSE 0

\* the window-based part of getRecommendedDelay(), on the stored windows
WindowDelay ==
    IF Len(requestsPerSecond) >= maxRequestsPerSecond THEN DelaySecond
    ELSE IF 10 * Len(requestsPerMinute) >= 9 * maxRequestsPerMinute THEN DelayMinute
    ELSE IF 10 * Len(requestsPerHour) >= 9 * maxRequestsPerHour THEN DelayHour
    ELSE 0

getRecommendedDelay ==
    LET b == isCircuitBreakerOpen
    IN  /\ metrics' = [metrics EXCEPT !.circuitBreakerOpen = b.open]
        /\ circuitBreakerOpenTime' = b.openTime
        /\ consecutiveFailures' = b.failures
        /\ last' = Called("getRecommendedDelay", b.ret, "none",
                           IF b.ret THEN BreakerDelay ELSE WindowDelay)
        /\ failRun' = IF metrics.circuitBreakerOpen /\ ~b.ret THEN 0 ELSE failRun
        /\ UNCHANGED <<now, config, requestsPerSecond, requestsPerMinute, requestsPerHour,
                       admitLog, throttledRun, denied, followed, admitted, opened,
                       latencySum, scope, svars>>

----------------------------------------------------------------------------
(* ApiClient *)

DefaultMaxRetries == 3
DefaultRetryDelay == 1000
DefaultMaxRetryDelay == 32000

\* config?.field: a field the caller left out reads as undefined, which is falsy
Field(cfg, k) == IF k \in DOMAIN cfg THEN cfg[k] ELSE 0

\* constructor
ApiClient(cfg) ==
    [maxRetries |-> Or(Field(cfg, "maxRetries"), DefaultMaxRetries),
     initialRetryDelay |-> Or(Field(cfg, "retryDelay"), DefaultRetryDelay),
     maxRetryDelay |-> Or(Field(cfg, "maxRetryDelay"), DefaultMaxRetryDelay)]

\* What an attempt throws, as handleError leaves it: an error with the response
\* (its status and its retry-after header), or an error without a response
NoHeader == [kind |-> "none", value |-> 0]
Seconds(n) == [kind |-> "seconds", value |-> n]
HttpDate(t) == [kind |-> "date", value |-> t]

NetworkError == [response |-> FALSE, status |-> 0, retryAfter |-> NoHeader]
HttpError(status, header) == [response |-> TRUE, status |-> status, retryAfter |-> header]

\* The failures the attempts are explored with: without a retry-after header,
\* and with one (seconds, or a date from this instant)
Unhinted ==
    {NetworkError} \cup {HttpError(status, NoHeader) : status \in {404, 408, 423, 429, 500}}

Hinted ==
    {HttpError(429, Seconds(2)), HttpError(429, Seconds(0)),
     HttpError(503, HttpDate(now + 1000)), HttpError(503, HttpDate(now - 1))}

\* every response with an error status taken for retryable
isRetryableErrorFrom400(error) ==
    IF ~error.response THEN TRUE ELSE error.status >= 400

isRetryableError(error) ==
    IF ~error.response THEN TRUE
    ELSE error.status = 429 \/ error.status >= 500 \/ error.status = 408
         \/ error.status = 423

\* getRetryAfter(error) in milliseconds; Undefined stands for null
getRetryAfter(error) ==
    IF ~error.response \/ error.retryAfter.kind = "none" THEN Undefined
    ELSE IF error.retryAfter.kind = "seconds" THEN error.retryAfter.value * 1000
    ELSE Max(0, error.retryAfter.value - now)

\* every status from 429 up taken for throttling
IsRateLimitedFrom429(error) == error.response /\ error.status >= 429

\* error.response?.status === 429
IsRateLimited(error) == error.response /\ error.status = 429

\* jitter of up to half the base delay
JitterUpToHalf(baseDelay) == {0, baseDelay \div 2}

\* Math.random() * 0.3 * baseDelay, at its two ends: 0 and just below 30%
Jitter(baseDelay) == {0, (3 * baseDelay - 1) \div 10}

\* retryAfter || baseDelay + jitter: null and 0 are falsy
WaitTime(error, delay, jitter) ==
    LET retryAfter == getRetryAfter(error)
        baseDelay == Min(delay, client.maxRetryDelay)
    IN  IF retryAfter = Undefined \/ retryAfter = 0
        THEN baseDelay + jitter
        ELSE retryAfter

Failures == IF scope.hinted THEN Unhinted \cup Hinted ELSE Unhinted

\* history: what one invocation has done so far
\*   calls: how often fn() was called, failed: how often it rejected,
\*   recorded: the recordFailure calls made for it, succeeded: its recordSuccess calls,
\*   denials: the sleeps after checkRateLimit returned false,
\*   waits: the sleeps before its retries (when, after which error, under which
\*   delay, how long), error: what fn() last rejected with,
\*   thrown: what the invocation rejected with
NoError == [response |-> FALSE, status |-> Undefined, retryAfter |-> NoHeader]

NoTrace ==
    [calls |-> 0, failed |-> 0, recorded |-> 0, succeeded |-> 0, denials |-> 0,
     waits |-> <<>>, error |-> NoError, thrown |-> NoError]

\* the history is kept where the scope asks for it
Traced(trace, new) == IF scope.traced THEN new ELSE trace

\* a retryWithBackoff invocation that has not been made yet
NewRun ==
    [pc |-> "idle", retries |-> 0, delay |-> 0, canProceed |-> FALSE,
     startTime |-> Undefined, wakeAt |-> Undefined, trace |-> NoTrace]

\* an error thrown without its response
ThrownWithoutResponse(error) == NetworkError

\* throw error: the caught error itself
Thrown(error) == error

\* no invocation stands between checkRateLimit's return and the code after its
\* await: timers and responses are handled only once such continuations have run
MicrotasksDrained == \A r \in DOMAIN runs : runs[r].pc # "admitting"

\* retryWithBackoff(fn, retries, delay) up to its await: checkRateLimit() runs
Enter(r, retries, delay) ==
    /\ checkRateLimit
    /\ runs' = [runs EXCEPT ![r] = [@ EXCEPT !.pc = "admitting",
                                             !.retries = retries,
                                             !.delay = delay,
                                             !.canProceed = last'.ok]]
    /\ UNCHANGED <<client, throttleSeen>>

\* a caller invokes get/post/put/delete
Start(r) ==
    /\ runs[r].pc = "idle"
    /\ Enter(r, client.maxRetries, client.initialRetryDelay)

\* fn() called whatever checkRateLimit returned
ProceedUnchecked(r) ==
    /\ runs[r].pc = "admitting"
    /\ runs' = [runs EXCEPT ![r] =
                    [@ EXCEPT !.pc = "executing",
                              !.startTime = now,
                              !.trace = Traced(@, [@ EXCEPT !.calls = @ + 1])]]
    /\ UNCHANGED <<now, gvars, hvars, svars, client, throttleSeen>>

\* canProceed: startTime is taken and fn() is called
Proceed(r) ==
    /\ runs[r].pc = "admitting"
    /\ runs[r].canProceed
    /\ runs' = [runs EXCEPT ![r] =
                    [@ EXCEPT !.pc = "executing",
                              !.startTime = now,
                              !.trace = Traced(@, [@ EXCEPT !.calls = @ + 1])]]
    /\ UNCHANGED <<now, gvars, hvars, svars, client, throttleSeen>>

\* !canProceed: sleep(getRecommendedDelay())
Delay(r) ==
    /\ runs[r].pc = "admitting"
    /\ ~runs[r].canProceed
    /\ getRecommendedDelay
    /\ runs' = [runs EXCEPT ![r] =
                    [@ EXCEPT !.pc = "delayed",
                              !.wakeAt = now + last'.delay,
                              !.trace = Traced(@, [@ EXCEPT !.denials = Min(@ + 1, MaxDenials)])]]
    /\ UNCHANGED <<client, throttleSeen>>

\* fn() resolves
Succeed(r) ==
    /\ runs[r].pc = "executing"
    /\ MicrotasksDrained
    /\ recordSuccess(now - runs[r].startTime)
    /\ runs' = [runs EXCEPT ![r] =
                    [@ EXCEPT !.pc = "returned",
                              !.trace = Traced(@, [@ EXCEPT !.succeeded = @ + 1])]]
    /\ UNCHANGED <<client, throttleSeen>>

\* fn() rejects with error: the catch block
Fail(r, error, jitter) ==
    /\ runs[r].pc = "executing"
    /\ MicrotasksDrained
    /\ LET failed == [runs[r].trace EXCEPT !.failed = @ + 1, !.error = error]
           waitTime == WaitTime(error, runs[r].delay, jitter)
       IN IF runs[r].retries = 0
          THEN /\ runs' = [runs EXCEPT ![r] =
                              [@ EXCEPT !.pc = "thrown",
                                        !.trace = Traced(@, [failed EXCEPT
                                                               !.thrown = Thrown(error)])]]
               /\ UNCHANGED <<now, gvars, hvars, svars>>
          ELSE /\ recordFailure(IsRateLimited(error))
               /\ IF isRetryableError(error)
                  THEN runs' = [runs EXCEPT ![r] =
                                  [@ EXCEPT !.pc = "waiting",
                                            !.wakeAt = now + waitTime,
                                            !.trace = Traced(@, [failed EXCEPT
                                                !.recorded = @ + 1,
                                                !.waits = Append(@, [at |-> now,
                                                                     error |-> error,
                                                                     delay |-> runs[r].delay,
                                                                     wait |-> waitTime])])]]
                  ELSE runs' = [runs EXCEPT ![r] =
                                  [@ EXCEPT !.pc = "thrown",
                                            !.trace = Traced(@, [failed EXCEPT
                                                !.recorded = @ + 1,
                                                !.thrown = Thrown(error)])]]
    /\ throttleSeen' = (throttleSeen \/ (error.response /\ error.status = 429))
    /\ UNCHANGED client

\* the sleep after a rejection is over: retryWithBackoff(fn, retries, delay)
WakeDelayed(r) ==
    /\ runs[r].pc = "delayed"
    /\ MicrotasksDrained
    /\ now >= runs[r].wakeAt
    /\ Enter(r, runs[r].retries, runs[r].delay)

\* a retry that leaves the number of retries as it is
WakeWaitingKeepingRetries(r) ==
    /\ runs[r].pc = "waiting"
    /\ MicrotasksDrained
    /\ now >= runs[r].wakeAt
    /\ Enter(r, runs[r].retries, runs[r].delay * 2)

\* the sleep before a retry is over: retryWithBackoff(fn, retries - 1, delay * 2)
WakeWaiting(r) ==
    /\ runs[r].pc = "waiting"
    /\ MicrotasksDrained
    /\ now >= runs[r].wakeAt
    /\ Enter(r, runs[r].retries - 1, runs[r].delay * 2)

----------------------------------------------------------------------------
(* The clock *)

\* the instants at which a sleeping invocation is due
WakeTimes == {runs[r].wakeAt : r \in {q \in DOMAIN runs : runs[q].pc \in {"delayed", "waiting"}}}

\* the clock moves on to a later instant
Tick ==
    /\ MicrotasksDrained
    /\ \E t \in scope.instants \cup WakeTimes : t > now /\ t <= scope.until /\ now' = t
    /\ opened' = IF opened.at # Undefined /\ now' >= opened.at + circuitBreakerResetTime
                 THEN NoOpening
                 ELSE opened
    /\ UNCHANGED <<last, admitLog, failRun, throttledRun, denied, followed, admitted,
                   latencySum, scope, svars>>
    /\ UNCHANGED <<gvars, xvars>>

----------------------------------------------------------------------------
(* A RateLimiter called directly, in any order, under an advancing clock *)

InitIn(scopes) ==
    /\ now = 0
    /\ \E s \in scopes :
          /\ config = RateLimiter(s.config)
          /\ scope = [k \in DOMAIN s \ {"config", "runs"} |-> s[k]]
          /\ client = ApiClient(s.client)
          /\ runs = [r \in s.runs |-> NewRun]
          /\ IF s.shared
             THEN /\ rateLimiterInstance = Null
                  /\ instances = 0
                  /\ clients = [c \in {Owner(r) : r \in s.runs} |-> Null]
                  /\ passed = {}
             ELSE /\ rateLimiterInstance = 1
                  /\ instances = 1
                  /\ clients = [c \in {Owner(r) : r \in s.runs} |-> 1]
                  /\ passed = {s.config}
    /\ requestsPerSecond = <<>>
    /\ requestsPerMinute = <<>>
    /\ requestsPerHour = <<>>
    /\ metrics = InitialMetrics
    /\ consecutiveFailures = 0
    /\ circuitBreakerOpenTime = Undefined
    /\ admitLog = <<>>
    /\ failRun = 0
    /\ throttledRun = 0
    /\ denied = NoDenial
    /\ followed = 0
    /\ latencySum = 0
    /\ opened = NoOpening
    /\ admitted = 0
    /\ last = Recorded("new", FALSE)
    /\ throttleSeen = FALSE

Init == InitIn(Scopes)

Next ==
    \/ checkRateLimit /\ UNCHANGED xvars
    \/ \E responseTime \in scope.latencies : recordSuccess(responseTime) /\ UNCHANGED xvars
    \/ \E isRateLimited \in BOOLEAN :
          /\ recordFailure(isRateLimited)
          /\ throttleSeen' = (throttleSeen \/ isRateLimited)
          /\ UNCHANGED <<client, runs>>
    \/ resetMetrics /\ UNCHANGED xvars
    \/ getRecommendedDelay /\ UNCHANGED xvars
    \/ Tick

Spec == Init /\ [][Next]_vars

\* the same calls on a breaker of threshold 3
InitThreshold3 == InitIn({Threshold3Scope})

SpecThreshold3 == InitThreshold3 /\ [][Next]_vars

\* the same calls on windows of capacity 10
InitTenth == InitIn({TenthScope})

SpecTenth == InitTenth /\ [][Next]_vars

\* the same calls with three response times to average
InitMean == InitIn({MeanScope})

SpecMean == InitMean /\ [][Next]_vars

----------------------------------------------------------------------------
(* ApiClient invocations sharing the RateLimiter *)

ClientNext ==
    \/ \E r \in DOMAIN runs : Start(r)
    \/ \E r \in DOMAIN runs : Proceed(r)
    \/ \E r \in DOMAIN runs : Delay(r)
    \/ \E r \in DOMAIN runs : Succeed(r)
    \/ \E r \in DOMAIN runs : \E error \in Failures :
          \E jitter \in Jitter(Min(runs[r].delay, client.maxRetryDelay)) :
             Fail(r, error, jitter)
    \/ \E r \in DOMAIN runs : WakeDelayed(r)
    \/ \E r \in DOMAIN runs : WakeWaiting(r)
    \/ Tick

InitClient == InitIn({ClientScope})

SpecClient == InitClient /\ [][ClientNext]_vars

\* one invocation, followed through its attempts
InitRun == InitIn({RunScope})

SpecRun == InitRun /\ [][ClientNext]_vars

\* one invocation of a client constructed with maxRetries: 0
InitNoRetry == InitIn({NoRetryScope})

SpecNoRetry == InitNoRetry /\ [][ClientNext]_vars

\* one invocation under an event loop that runs every continuation and timer that
\* is due, and a fn() that settles
InitLive == InitIn({LiveScope})

SpecLive == InitLive /\ [][ClientNext]_vars /\ WF_vars(ClientNext)

\* ... while the RateLimiter is also called from outside the client
InitMixed == InitIn({MixedScope})

SpecMixed == InitMixed /\ [][Next \/ ClientNext]_vars

----------------------------------------------------------------------------
(* The RateLimiter of the module and the ApiClients holding it *)

\* a getRateLimiter that constructs a RateLimiter at every call
getRateLimiterPerCall(cfg) ==
    [instance |-> instances + 1, created |-> TRUE, config |-> RateLimiter(cfg)]

\* getRateLimiter(config): the instance it returns, and whether it constructed it
getRateLimiter(cfg) ==
    IF rateLimiterInstance = Null
    THEN [instance |-> instances + 1, created |-> TRUE, config |-> RateLimiter(cfg)]
    ELSE [instance |-> rateLimiterInstance, created |-> FALSE, config |-> config]

\* what a getRateLimiter(cfg) call that returned got leaves behind: a RateLimiter
\* it constructed is the module's instance, with its configuration, empty windows
\* and zeroed counters
Got(got, cfg) ==
    /\ passed' = passed \cup {cfg}
    /\ IF got.created
       THEN /\ rateLimiterInstance' = got.instance
            /\ instances' = got.instance
            /\ config' = got.config
            /\ requestsPerSecond' = <<>>
            /\ requestsPerMinute' = <<>>
            /\ requestsPerHour' = <<>>
            /\ metrics' = InitialMetrics
            /\ consecutiveFailures' = 0
            /\ circuitBreakerOpenTime' = Undefined
       ELSE UNCHANGED <<rateLimiterInstance, instances, gvars>>
    /\ UNCHANGED <<now, hvars, xvars>>

\* code of the process calls getRateLimiter(cfg)
CallGetRateLimiter(cfg) ==
    /\ MicrotasksDrained
    /\ Got(getRateLimiter(cfg), cfg)
    /\ UNCHANGED clients

\* new ApiClient(config): this.rateLimiter = getRateLimiter()
NewApiClient(c) ==
    /\ MicrotasksDrained
    /\ clients[c] = Null
    /\ LET got == getRateLimiter(NoConfig)
       IN /\ Got(got, NoConfig)
          /\ clients' = [clients EXCEPT ![c] = got.instance]

\* a caller invokes get/post/put/delete on the ApiClient it has constructed
StartOn(r) ==
    /\ clients[Owner(r)] # Null
    /\ Start(r)

SharedNext ==
    \/ \E cfg \in scope.configs : CallGetRateLimiter(cfg)
    \/ \E c \in DOMAIN clients : NewApiClient(c)
    \/ \E r \in DOMAIN runs : StartOn(r)
    \/ \E r \in DOMAIN runs : Proceed(r)
    \/ \E r \in DOMAIN runs : Delay(r)
    \/ \E r \in DOMAIN runs : Succeed(r)
    \/ \E r \in DOMAIN runs : \E error \in Failures :
          \E jitter \in Jitter(Min(runs[r].delay, client.maxRetryDelay)) :
             Fail(r, error, jitter)
    \/ \E r \in DOMAIN runs : WakeDelayed(r)
    \/ \E r \in DOMAIN runs : WakeWaiting(r)
    \/ Tick

InitShared == InitIn({SharedScope})

SpecShared == InitShared /\ [][SharedNext]_vars

----------------------------------------------------------------------------
(* What the history says, independently of the stored windows *)

\* admissions at instants in the half-open interval (t - horizon, t]
AdmittedIn(t, horizon) ==
    Cardinality({i \in DOMAIN admitLog : admitLog[i] <= t /\ t - admitLog[i] < horizon})

Horizon(w) ==
    IF w = "second" THEN SecondMs ELSE IF w = "minute" THEN MinuteMs ELSE HourMs

Capacity(w) ==
    IF w = "second" THEN config.maxRequestsPerSecond
    ELSE IF w = "minute" THEN config.maxRequestsPerMinute
    ELSE config.maxRequestsPerHour

Windows == {"second", "minute", "hour"}

\* every window but `except` has room for one more admission at this instant
Headroom(except) ==
    \A w \in Windows \ {except} : AdmittedIn(now, Horizon(w)) < Capacity(w)

\* the breaker is open and its reset time has not passed
CoolingDown ==
    /\ metrics.circuitBreakerOpen
    /\ now < circuitBreakerOpenTime + config.circuitBreakerResetTime

----------------------------------------------------------------------------
(* Claims *)

\* C1: with the breaker closed and room in the minute and hour windows, a
\* checkRateLimit() call returns true when fewer than maxRequestsPerSecond calls
\* were admitted within the last second and false when maxRequestsPerSecond were:
\* the first N calls of a second are admitted, the (N+1)-th is rejected.
C1_PerSecondLimit ==
    [][(checkRateLimit /\ ~metrics.circuitBreakerOpen /\ Headroom("second"))
         => (last'.ok <=> AdmittedIn(now, SecondMs) < config.maxRequestsPerSecond)]_vars

\* the (N+1)-th call of a second was rejected, by the second window
C1_Witness ==
    /\ last.op = "checkRateLimit" /\ ~last.ok /\ last.why = "second" /\ last.at = now
    /\ ~last.wasOpen
    /\ AdmittedIn(now, SecondMs) = config.maxRequestsPerSecond
    /\ config.maxRequestsPerSecond > 1
    /\ Headroom("second")

\* C2: at every instant t, the admissions in (t - 1000, t] are at most
\* maxRequestsPerSecond, those in (t - 60000, t] at most maxRequestsPerMinute and
\* those in (t - 3600000, t] at most maxRequestsPerHour.
C2_WindowsBounded ==
    \A t \in {admitLog[i] : i \in DOMAIN admitLog} \cup {now} :
        \A w \in Windows : AdmittedIn(t, Horizon(w)) <= Capacity(w)

\* the hour window is full, with older admissions behind it and a success, a
\* failure and a reset of the metrics among the calls
C2_Witness ==
    /\ AdmittedIn(now, HourMs) = config.maxRequestsPerHour
    /\ Len(admitLog) > config.maxRequestsPerHour
    /\ config.maxRequestsPerHour > 1
    /\ metrics.successfulRequests > 0

\* C3 as stated: once a window has rejected a call and its horizon has passed
\* with no admission since, the next call is admitted and leaves
\* rateLimitedRequests as it was.
C3_AdmittedAfterHorizon ==
    [][(checkRateLimit /\ denied.why # "none" /\ now - denied.at >= Horizon(denied.why))
         => (last'.ok /\ metrics'.rateLimitedRequests = metrics.rateLimitedRequests)]_vars

\* C3 as amended: ... provided the breaker is not cooling down and the other two
\* windows have room at that instant.
C3_AdmittedAfterHorizonIfRoom ==
    [][(checkRateLimit /\ denied.why # "none" /\ now - denied.at >= Horizon(denied.why)
          /\ ~CoolingDown /\ Headroom(denied.why))
         => (last'.ok /\ metrics'.rateLimitedRequests = metrics.rateLimitedRequests)]_vars

\* a call was admitted a horizon or more after the window rejected one
C3_Witness ==
    /\ last.op = "checkRateLimit" /\ last.ok
    /\ last.prior.why # "none"
    /\ last.at - last.prior.at >= Horizon(last.prior.why)
    /\ metrics.rateLimitedRequests > 0

\* C4 as stated: right after the circuitBreakerThreshold-th recordFailure(true)
\* in a row with no recordSuccess in between, the metrics report
\* circuitBreakerOpen, and a checkRateLimit() call that follows returns false,
\* whatever room the windows have.
C4_OpensAfterFailures ==
    [][/\ (last'.op = "recordFailure" /\ last'.ok
             /\ throttledRun' >= config.circuitBreakerThreshold)
            => metrics'.circuitBreakerOpen
       /\ (checkRateLimit /\ last.op = "recordFailure" /\ last.ok
             /\ throttledRun >= config.circuitBreakerThreshold
             /\ now - last.at < config.circuitBreakerResetTime)
            => (~last'.ok /\ last'.why = "breaker")]_vars

\* C4 as amended: ... in a row with none of recordSuccess, resetMetrics or a reset
\* of the breaker (its reset time passing) in between, the metrics report
\* circuitBreakerOpen, and a checkRateLimit() call that follows before the reset
\* time has passed returns false, whatever room the windows have.
C4_OpensAtThreshold ==
    [][/\ (last'.op = "recordFailure" /\ last'.ok
             /\ failRun' >= config.circuitBreakerThreshold)
            => metrics'.circuitBreakerOpen
       /\ (checkRateLimit /\ last.op = "recordFailure" /\ last.ok
             /\ failRun >= config.circuitBreakerThreshold
             /\ now - last.at < config.circuitBreakerResetTime)
            => (~last'.ok /\ last'.why = "breaker")]_vars

\* the breaker rejected a call that every window had room for
C4_Witness ==
    /\ last.op = "checkRateLimit" /\ ~last.ok /\ last.why = "breaker" /\ last.at = now
    /\ failRun = config.circuitBreakerThreshold
    /\ config.circuitBreakerThreshold > 1
    /\ metrics.circuitBreakerOpen
    /\ Headroom("none")

C6_PatternNeverOpens ==
    (followed # Undefined /\ followed > 0 /\ last.op \in {"recordSuccess", "recordFailure"})
        => ~metrics.circuitBreakerOpen

\* C6 as amended: the third failure opens the breaker; from the success on it is
\* closed and consecutiveFailures counts only the failures after the success, so
\* the two further failures leave it closed.
C6_PatternEndsClosed ==
    /\ (followed = config.circuitBreakerThreshold /\ last.op = "recordFailure")
          => metrics.circuitBreakerOpen
    /\ (followed # Undefined /\ followed > config.circuitBreakerThreshold)
          => /\ ~metrics.circuitBreakerOpen
             /\ consecutiveFailures <= followed - config.circuitBreakerThreshold - 1

\* all six outcomes have been recorded
C6_Witness ==
    /\ config.circuitBreakerThreshold = 3
    /\ followed = 6
    /\ last.op = "recordFailure"
    /\ consecutiveFailures = 2
    /\ ~metrics.circuitBreakerOpen

\* C7: as long as recordFailure(true) has not been called from outside the client
\* and no attempt of the client has failed with status 429, the breaker is closed
\* and consecutiveFailures is 0: network errors and the statuses 404, 408, 423 and
\* 500, in any number, do not open it.
C7_OnlyThrottlingOpens ==
    ~throttleSeen => (~metrics.circuitBreakerOpen /\ consecutiveFailures = 0)

\* an invocation waits for its second retry after two failures, none of them a
\* 429, which make as many recorded failures as the threshold
C7_Witness ==
    /\ ~throttleSeen
    /\ \E r \in DOMAIN runs :
          /\ runs[r].pc = "waiting"
          /\ runs[r].retries = client.maxRetries - 1
    /\ metrics.failedRequests >= config.circuitBreakerThreshold
    /\ last.op = "recordFailure"
    /\ ~metrics.circuitBreakerOpen

\* C8: with the breaker not cooling down, getRecommendedDelay() returns 1000 when
\* the stored second window is full; else 600 when the stored minute window holds
\* 90% of its capacity or more; else 3600 when the stored hour window holds 90% of
\* its capacity or more; else 0.
C8_WindowDelays ==
    [][(getRecommendedDelay /\ ~CoolingDown)
         => LET s == Len(requestsPerSecond) >= config.maxRequestsPerSecond
                m == 10 * Len(requestsPerMinute) >= 9 * config.maxRequestsPerMinute
                h == 10 * Len(requestsPerHour) >= 9 * config.maxRequestsPerHour
            IN  /\ s => last'.delay = 1000
                /\ (~s /\ m) => last'.delay = 600
                /\ (~s /\ ~m /\ h) => last'.delay = 3600
                /\ (~s /\ ~m /\ ~h) => last'.delay = 0]_vars

\* 3600 was returned: the hour window alone is at 90%, with 9 entries of 10
C8_Witness ==
    /\ last.op = "getRecommendedDelay" /\ ~last.ok /\ last.delay = 3600
    /\ Len(requestsPerSecond) < config.maxRequestsPerSecond
    /\ 10 * Len(requestsPerMinute) < 9 * config.maxRequestsPerMinute
    /\ 10 * Len(requestsPerHour) >= 9 * config.maxRequestsPerHour
    /\ Len(requestsPerHour) < config.maxRequestsPerHour

\* C9: while the breaker is cooling down, getRecommendedDelay() returns
\* circuitBreakerOpenTime + circuitBreakerResetTime - now, which lies in
\* (0, circuitBreakerResetTime], whatever the windows hold.
C9_BreakerDelay ==
    [][(getRecommendedDelay /\ CoolingDown)
         => /\ last'.delay = circuitBreakerOpenTime + config.circuitBreakerResetTime - now
            /\ last'.delay > 0
            /\ last'.delay <= config.circuitBreakerResetTime]_vars

\* the rest of the reset time was returned over a full second window
C9_Witness ==
    /\ last.op = "getRecommendedDelay" /\ last.ok /\ last.at = now
    /\ Len(requestsPerSecond) >= config.maxRequestsPerSecond
    /\ last.delay = circuitBreakerOpenTime + config.circuitBreakerResetTime - now
    /\ last.delay < config.circuitBreakerResetTime

\* C10: getRecommendedDelay() changes nothing of the RateLimiter: not the windows,
\* consecutiveFailures, circuitBreakerOpenTime, the breaker flag or the counters.
C10_PureQuery ==
    [][getRecommendedDelay => UNCHANGED gvars]_vars

\* C11: resetMetrics() zeroes the aggregate counters and leaves the three windows
\* and the breaker state (the flag, circuitBreakerOpenTime, consecutiveFailures)
\* unchanged, so that a breaker open before it is open after it.
C11_ResetKeepsBreaker ==
    [][resetMetrics
         => /\ metrics'.totalRequests = 0
            /\ metrics'.successfulRequests = 0
            /\ metrics'.failedRequests = 0
            /\ metrics'.rateLimitedRequests = 0
            /\ metrics'.averageResponseTime = Frac(0, 1)
            /\ metrics'.circuitBreakerOpen = metrics.circuitBreakerOpen
            /\ UNCHANGED <<requestsPerSecond, requestsPerMinute, requestsPerHour,
                           circuitBreakerOpenTime, consecutiveFailures>>]_vars

C13_RetriesThenSuccess ==
    \A r \in DOMAIN runs :
       runs[r].pc = "returned"
          => /\ runs[r].trace.failed <= client.maxRetries
             /\ runs[r].trace.calls = runs[r].trace.failed + 1
             /\ runs[r].trace.succeeded = 1
             /\ runs[r].trace.recorded = runs[r].trace.failed
             /\ Len(runs[r].trace.waits) = runs[r].trace.failed

\* two network errors, then success: fn() was called three times
C13_Witness ==
    \E r \in DOMAIN runs :
       /\ runs[r].pc = "returned"
       /\ runs[r].trace.failed = 2
       /\ runs[r].trace.error = NetworkError
       /\ runs[r].trace.calls = 3
       /\ metrics.successfulRequests = 1
       /\ metrics.failedRequests = 2

----------------------------------------------------------------------------
(* The waits of one invocation *)

\* the base delay of the i-th retry, counted from 1: the initial delay doubled
\* i - 1 times, capped
Base(i) == Min(client.initialRetryDelay * 2^(i - 1), client.maxRetryDelay)

\* the retries of r that slept after an error without a Retry-After header
UnhintedRetries(r) ==
    {i \in 1..Len(runs[r].trace.waits) : runs[r].trace.waits[i].error.retryAfter = NoHeader}

\* every such sleep lies in [Base(i), 1.3 * Base(i)), and the bases grow up to the cap
WaitsWithinJitter(r) ==
    \A i \in UnhintedRetries(r) :
       /\ runs[r].trace.waits[i].wait >= Base(i)
       /\ 10 * runs[r].trace.waits[i].wait < 13 * Base(i)
       /\ Base(i) <= client.maxRetryDelay
       /\ i > 1 => Base(i) >= Base(i - 1)

C15_NonRetryableThrown ==
    \A r \in DOMAIN runs :
       (/\ runs[r].trace.failed > 0
        /\ runs[r].trace.error.response
        /\ runs[r].trace.error.status \in (400..499) \ {408, 423, 429})
          => /\ runs[r].pc = "thrown"
             /\ runs[r].trace.thrown = runs[r].trace.error
             /\ runs[r].trace.calls = runs[r].trace.failed
             /\ Len(runs[r].trace.waits) = runs[r].trace.failed - 1

\* the first attempt was answered 404: thrown with all retries left
C15_Witness ==
    \E r \in DOMAIN runs :
       /\ runs[r].pc = "thrown"
       /\ runs[r].trace.error = HttpError(404, NoHeader)
       /\ runs[r].trace.calls = 1
       /\ runs[r].retries = client.maxRetries
       /\ runs[r].trace.waits = <<>>
       /\ metrics.failedRequests = 1

----------------------------------------------------------------------------
(* Retry-After *)

\* the hint of a Retry-After header read at instant t, in milliseconds, not below 0
Hint(header, t) ==
    IF header.kind = "seconds" THEN Max(0, header.value * 1000)
    ELSE Max(0, header.value - t)

\* C16: after a retryable failure with a Retry-After hint the sleep is the hint
\* exactly, whatever the delay: s seconds give s * 1000 ms, an instant gives
\* instant - now, not below 0, so that 0 seconds or a past instant give a sleep of 0.
C16_HintHonoured ==
    \A r \in DOMAIN runs :
       \A i \in 1..Len(runs[r].trace.waits) :
          LET w == runs[r].trace.waits[i]
          IN w.error.retryAfter # NoHeader => w.wait = Hint(w.error.retryAfter, w.at)

----------------------------------------------------------------------------
(* What an invocation records and throws *)

\* C17: every rejection of fn(): retryable, not retryable, or met with no retries
\* left, is followed by exactly one recordFailure before the throw or the sleep:
\* failedRequests has grown by the number of failed attempts.
C17_EveryFailureRecorded ==
    \A r \in DOMAIN runs :
       /\ runs[r].trace.recorded = runs[r].trace.failed
       /\ Cardinality(DOMAIN runs) = 1 => metrics.failedRequests = runs[r].trace.failed

\* C18: an invocation whose last attempt failed with an error that is not retryable,
\* or with the retries used up, has thrown exactly the error fn() rejected with; an
\* invocation that returned made a successful last attempt, and one that threw did
\* not return.
C18_ThrowsLastError ==
    \A r \in DOMAIN runs :
       LET t == runs[r].trace
           lastFailed == t.failed > 0 /\ t.calls = t.failed
           notRetryable == t.error.response /\ t.error.status \in (400..499) \ {408, 423, 429}
       IN /\ (lastFailed /\ (notRetryable \/ t.failed = client.maxRetries + 1))
                => runs[r].pc = "thrown" /\ t.thrown = t.error /\ t.succeeded = 0
          /\ runs[r].pc = "thrown" => lastFailed /\ t.thrown = t.error /\ t.succeeded = 0
          /\ runs[r].pc = "returned"
                => t.succeeded = 1 /\ t.calls = t.failed + 1 /\ t.thrown = NoError

\* the fourth attempt of a client of three retries was answered 500: thrown as it is
C18_Witness ==
    \E r \in DOMAIN runs :
       /\ runs[r].pc = "thrown"
       /\ runs[r].retries = 0
       /\ runs[r].trace.failed = client.maxRetries + 1
       /\ runs[r].trace.error = HttpError(500, NoHeader)
       /\ runs[r].trace.thrown = HttpError(500, NoHeader)

\* the maxRetries the client was constructed with: the configured number, 3 when
\* the configuration leaves it out
ConfiguredMaxRetries ==
    IF "maxRetries" \in DOMAIN scope.client THEN scope.client.maxRetries
    ELSE DefaultMaxRetries

\* C19: one invocation calls fn() at most maxRetries + 1 times, however its failures
\* are classified, and the sleeps after a rejected checkRateLimit cost no retry and
\* leave the delay alone: retries and delay follow the number of retries made,
\* whatever the number of rejections.
C19_BudgetBounded ==
    \A r \in DOMAIN runs :
       runs[r].pc # "idle"
          => LET retried == Len(runs[r].trace.waits)
                               - (IF runs[r].pc = "waiting" THEN 1 ELSE 0)
             IN /\ runs[r].trace.calls <= ConfiguredMaxRetries + 1
                /\ runs[r].retries = client.maxRetries - retried
                /\ runs[r].delay = client.initialRetryDelay * 2^retried

----------------------------------------------------------------------------
(* Invocations in flight together *)

\* the stored window w
Stored(w) ==
    IF w = "second" THEN requestsPerSecond
    ELSE IF w = "minute" THEN requestsPerMinute
    ELSE requestsPerHour

\* C20: however invocations sharing the RateLimiter interleave (at their sleeps and
\* at the awaited fn()), no stored window is ever longer than its capacity, and a
\* checkRateLimit returns true only while every window has a free slot: of two
\* calls meeting one free slot, the second is rejected.
C20_CheckThenAppendAtomic ==
    /\ [](\A w \in Windows : Len(Stored(w)) <= Capacity(w))
    /\ [][Len(admitLog') > Len(admitLog)
            => \A w \in Windows : /\ AdmittedIn(now, Horizon(w)) < Capacity(w)
                                  /\ Len(Stored(w)') <= Capacity(w)]_vars

\* two invocations called checkRateLimit at the same instant with one slot left in
\* the second window: one was admitted, the other rejected by that window
C20_Witness ==
    \E r, q \in DOMAIN runs :
       /\ r # q
       /\ runs[r].pc = "executing" /\ runs[r].startTime = now
       /\ runs[q].pc = "admitting" /\ ~runs[q].canProceed
       /\ last.op = "checkRateLimit" /\ ~last.ok /\ last.why = "second" /\ last.at = now
       /\ Len(requestsPerSecond) = config.maxRequestsPerSecond
       /\ requestsPerSecond[Len(requestsPerSecond)] = now

----------------------------------------------------------------------------
(* The course of one invocation *)

\* C21: an invocation moves only from admission to admission (through the sleep
\* after a rejection) or to the call of fn(), from fn() to its return, to the sleep
\* before a retry or to the throw, and from that sleep back to admission; fn() is
\* called, first or again, only right after a checkRateLimit of this invocation that
\* returned true, never after one that returned false.
C21_Transitions ==
    [][\A r \in DOMAIN runs :
          runs'[r].pc # runs[r].pc
             => /\ \/ runs[r].pc \in {"idle", "delayed", "waiting"} /\ runs'[r].pc = "admitting"
                   \/ /\ runs[r].pc = "admitting"
                      /\ runs[r].canProceed
                      /\ runs'[r].pc = "executing"
                      /\ \E i \in DOMAIN admitLog : admitLog[i] = now
                   \/ /\ runs[r].pc = "admitting"
                      /\ ~runs[r].canProceed
                      /\ runs'[r].pc = "delayed"
                   \/ /\ runs[r].pc = "executing"
                      /\ runs'[r].pc \in {"returned", "waiting", "thrown"}
                /\ runs'[r].pc = "admitting"
                      => runs'[r].canProceed = (Len(admitLog') > Len(admitLog))]_vars

\* a retry: fn() is called again at the instant checkRateLimit returned true
C21_Witness ==
    \E r \in DOMAIN runs :
       /\ runs[r].pc = "executing"
       /\ runs[r].retries < client.maxRetries
       /\ runs[r].startTime = now
       /\ last.op = "checkRateLimit" /\ last.ok /\ last.at = now
       /\ metrics.rateLimitedRequests > 0

\* C22: one invocation, alone on the RateLimiter under an advancing clock, ends: it
\* returns or throws. A full window or an open breaker lets it through in the end,
\* and the retries end with a success, an error that is not retryable or the last
\* retry.
C22_Terminates ==
    <>(\A r \in DOMAIN runs : runs[r].pc \in {"returned", "thrown"})

\* the invocation has ended after the full minute window rejected its third
\* attempt for most of a minute
C22_Witness ==
    \E r \in DOMAIN runs :
       /\ runs[r].pc \in {"returned", "thrown"}
       /\ runs[r].retries = 0
       /\ metrics.rateLimitedRequests >= 90
       /\ now >= MinuteMs

----------------------------------------------------------------------------
(* What one checkRateLimit call does *)

\* C23: a checkRateLimit call is admitted, rejected by a window or rejected by the
\* breaker, one of the three; admitted, it appends now to each of the three windows
\* and adds 1 to totalRequests, and only then: totalRequests is the number of calls
\* that returned true since construction or the last resetMetrics().
C23_OneOutcome ==
    /\ [](metrics.totalRequests = admitted)
    /\ [][checkRateLimit
            => /\ last'.why \in {"admitted", "breaker"} \cup Windows
               /\ last'.ok = (last'.why = "admitted")
               /\ last'.ok = (Len(admitLog') > Len(admitLog))
               /\ IF last'.ok
                  THEN /\ metrics'.totalRequests = metrics.totalRequests + 1
                       /\ \A w \in Windows :
                             /\ Len(Stored(w)') > 0
                             /\ Stored(w)'[Len(Stored(w)')] = now
                             /\ Cardinality({i \in DOMAIN Stored(w)' : Stored(w)'[i] = now})
                                  = Cardinality({i \in DOMAIN Stored(w) : Stored(w)[i] = now}) + 1
                  ELSE /\ metrics'.totalRequests = metrics.totalRequests
                       /\ \A w \in Windows :
                             Cardinality({i \in DOMAIN Stored(w)' : Stored(w)'[i] = now})
                                = Cardinality({i \in DOMAIN Stored(w) : Stored(w)[i] = now})]_vars

\* a call was admitted after a reset of the metrics and after rejections: the
\* count restarted
C23_Witness ==
    /\ last.op = "checkRateLimit" /\ last.ok
    /\ metrics.totalRequests = 1
    /\ Len(admitLog) > 2
    /\ metrics.rateLimitedRequests > 0
    /\ Len(requestsPerHour) > 2

\* C24: a checkRateLimit call made while the breaker is open and its reset time has
\* not passed returns false and changes nothing: not the windows, totalRequests,
\* rateLimitedRequests, lastRateLimitTime, consecutiveFailures or
\* circuitBreakerOpenTime.
C24_BreakerRejectionChangesNothing ==
    [][(checkRateLimit /\ CoolingDown)
         => /\ ~last'.ok
            /\ last'.why = "breaker"
            /\ UNCHANGED gvars
            /\ UNCHANGED admitLog]_vars

\* the open breaker rejected a call for which every window had room
C24_Witness ==
    /\ last.op = "checkRateLimit" /\ ~last.ok /\ last.why = "breaker" /\ last.at = now
    /\ CoolingDown
    /\ \A w \in Windows : AdmittedIn(now, Horizon(w)) < Capacity(w)
    /\ now > circuitBreakerOpenTime

\* the window w holds as many admissions of its horizon as it has room for
Full(w) == AdmittedIn(now, Horizon(w)) >= Capacity(w)

\* C25: a checkRateLimit call rejected by a window adds exactly 1 to
\* rateLimitedRequests, also when two or three windows are full at once (the first
\* full one in the order second, minute, hour rejects), stamps lastRateLimitTime,
\* adds no entry to any window and leaves totalRequests unchanged.
C25_WindowRejectionCounted ==
    [][(checkRateLimit /\ last'.why \in Windows)
         => /\ ~last'.ok
            /\ last'.why = (IF Full("second") THEN "second"
                            ELSE IF Full("minute") THEN "minute" ELSE "hour")
            /\ Full(last'.why)
            /\ metrics'.rateLimitedRequests = metrics.rateLimitedRequests + 1
            /\ metrics'.lastRateLimitTime = now
            /\ metrics'.totalRequests = metrics.totalRequests
            /\ metrics'.successfulRequests = metrics.successfulRequests
            /\ metrics'.failedRequests = metrics.failedRequests
            /\ UNCHANGED admitLog
            /\ \A w \in Windows :
                  /\ Len(Stored(w)') <= Len(Stored(w))
                  /\ \A i \in DOMAIN Stored(w)' :
                        \E j \in DOMAIN Stored(w) : Stored(w)[j] = Stored(w)'[i]
                  /\ Cardinality({i \in DOMAIN Stored(w)' : Stored(w)'[i] = now})
                       = Cardinality({i \in DOMAIN Stored(w) : Stored(w)[i] = now})]_vars

\* a call was rejected once, by the second window, while all three windows were
\* full
C25_Witness ==
    /\ last.op = "checkRateLimit" /\ ~last.ok /\ last.why = "second" /\ last.at = now
    /\ \A w \in Windows : Full(w)
    /\ metrics.rateLimitedRequests = 1
    /\ metrics.lastRateLimitTime = now
    /\ metrics.totalRequests = 1

----------------------------------------------------------------------------
(* The breaker's flag and the instant it opened *)

\* C26: the flag and circuitBreakerOpenTime agree in every reachable state: the
\* instant is set exactly when the breaker is open, after any sequence of
\* checkRateLimit, recordSuccess, recordFailure, getRecommendedDelay and
\* resetMetrics calls.
C26_FlagAgreesWithOpenTime ==
    metrics.circuitBreakerOpen <=> circuitBreakerOpenTime # Undefined

\* C27: circuitBreakerOpenTime is written only when the breaker goes from closed to
\* open: while the breaker stays open, a recordFailure(true) among the steps does
\* not move it, so that the end of the reset time is never put off.
C27_OpenTimeNotMoved ==
    [][(metrics.circuitBreakerOpen /\ metrics'.circuitBreakerOpen)
         => circuitBreakerOpenTime' = circuitBreakerOpenTime]_vars

\* C28, as stated: once the breaker has opened at T, every checkRateLimit call at an
\* instant in [T, T + circuitBreakerResetTime) returns false, whatever room the
\* windows have and whatever calls are made in between.
C28_RejectsThroughoutReset ==
    [][(checkRateLimit /\ opened.at # Undefined) => ~last'.ok]_vars

\* C28: once the breaker has opened at T, every checkRateLimit call at an instant in
\* [T, T + circuitBreakerResetTime) returns false, whatever room the windows have,
\* as long as no recordSuccess and no resetMetrics has been called since T.
C28_RejectsUntilClosed ==
    [][(checkRateLimit /\ opened.at # Undefined /\ ~opened.closed)
         => (~last'.ok /\ last'.why = "breaker")]_vars

\* after the opening further calls were made; a call at a later instant of the
\* reset time was rejected while every window had room
C28_Witness ==
    /\ last.op = "checkRateLimit" /\ ~last.ok /\ last.why = "breaker" /\ last.at = now
    /\ opened.at # Undefined /\ ~opened.closed
    /\ now > opened.at
    /\ \A w \in Windows : ~Full(w)
    /\ \E r \in DOMAIN runs : runs[r].pc \in {"admitting", "delayed"}

----------------------------------------------------------------------------
(* What recordSuccess and recordFailure do *)

\* C29: recordSuccess(responseTime), in any state, adds 1 to successfulRequests,
\* zeroes consecutiveFailures, closes the breaker and clears circuitBreakerOpenTime
\* if it was open, and leaves the three windows, totalRequests, failedRequests and
\* rateLimitedRequests unchanged.
C29_RecordSuccessEffect ==
    [][(\E responseTime \in scope.latencies : recordSuccess(responseTime))
         => /\ metrics'.successfulRequests = metrics.successfulRequests + 1
            /\ consecutiveFailures' = 0
            /\ ~metrics'.circuitBreakerOpen
            /\ metrics.circuitBreakerOpen => circuitBreakerOpenTime' = Undefined
            /\ metrics'.totalRequests = metrics.totalRequests
            /\ metrics'.failedRequests = metrics.failedRequests
            /\ metrics'.rateLimitedRequests = metrics.rateLimitedRequests
            /\ metrics'.lastRateLimitTime = metrics.lastRateLimitTime
            /\ UNCHANGED <<requestsPerSecond, requestsPerMinute, requestsPerHour>>]_vars

\* a success was recorded on the breaker that the failures counted had opened, with
\* admissions in the windows
C29_Witness ==
    /\ last.op = "recordSuccess"
    /\ opened.at # Undefined /\ opened.closed
    /\ metrics.rateLimitedRequests >= config.circuitBreakerThreshold
    /\ metrics.failedRequests >= config.circuitBreakerThreshold
    /\ metrics.successfulRequests = 1
    /\ ~metrics.circuitBreakerOpen
    /\ circuitBreakerOpenTime = Undefined
    /\ consecutiveFailures = 0
    /\ Len(requestsPerSecond) > 0

\* C30: recordFailure(true) adds exactly 1 to failedRequests, rateLimitedRequests
\* and consecutiveFailures and has the breaker open exactly when consecutiveFailures
\* has reached the threshold; recordFailure(false) adds 1 to failedRequests only and
\* leaves consecutiveFailures and the breaker as they are.
C30_RecordFailureEffect ==
    /\ [][recordFailure(TRUE)
            => /\ metrics'.failedRequests = metrics.failedRequests + 1
               /\ metrics'.rateLimitedRequests = metrics.rateLimitedRequests + 1
               /\ consecutiveFailures' = consecutiveFailures + 1
               /\ metrics'.circuitBreakerOpen
                     = (consecutiveFailures' >= config.circuitBreakerThreshold)
               /\ (~metrics.circuitBreakerOpen /\ metrics'.circuitBreakerOpen)
                     => circuitBreakerOpenTime' = now
               /\ metrics'.totalRequests = metrics.totalRequests
               /\ metrics'.successfulRequests = metrics.successfulRequests
               /\ UNCHANGED <<requestsPerSecond, requestsPerMinute, requestsPerHour>>]_vars
    /\ [][recordFailure(FALSE)
            => /\ metrics' = [metrics EXCEPT !.failedRequests = @ + 1]
               /\ UNCHANGED <<consecutiveFailures, circuitBreakerOpenTime,
                              requestsPerSecond, requestsPerMinute, requestsPerHour>>]_vars

\* the second throttling failure opened a breaker of threshold 2, with a failure
\* that was not throttling among the three recorded
C30_Witness ==
    /\ last.op = "recordFailure" /\ last.ok
    /\ config.circuitBreakerThreshold = 2
    /\ consecutiveFailures = 2
    /\ metrics.circuitBreakerOpen
    /\ circuitBreakerOpenTime = now
    /\ metrics.rateLimitedRequests = 2
    /\ metrics.failedRequests = 3

----------------------------------------------------------------------------
(* How a failed attempt is classified *)

\* the statuses retried: 429, 408, 423 and every status from 500 up
RetryableStatus(status) == status \in {408, 423, 429} \/ status >= 500

\* C31: a rejection of fn() is taken for retryable exactly when it has no response
\* or its status is 429, 408, 423 or at least 500, and for throttling exactly when
\* its status is 429: with retries left the invocation sleeps for a retry in the
\* first case and throws otherwise, and the recordFailure made for the rejection
\* counts it among the rate limited ones exactly for a 429.
C31_Classification ==
    [][\A r \in DOMAIN runs :
          (runs[r].pc = "executing" /\ runs'[r].pc \in {"waiting", "thrown"})
            => LET error == runs'[r].trace.error
                   retryable == ~error.response \/ RetryableStatus(error.status)
                   throttled == error.response /\ error.status = 429
               IN /\ isRetryableError(error) = retryable
                  /\ IsRateLimited(error) = throttled
                  /\ runs[r].retries > 0
                       => /\ (runs'[r].pc = "waiting") = retryable
                          /\ (runs'[r].pc = "thrown") = ~retryable
                          /\ metrics'.failedRequests = metrics.failedRequests + 1
                          /\ metrics'.rateLimitedRequests
                               = metrics.rateLimitedRequests + (IF throttled THEN 1 ELSE 0)]_vars

\* a 429 and a rejection without response were retried, a 404 was thrown with a
\* retry left: three failures recorded, one of them as rate limited
C31_Witness ==
    \E r \in DOMAIN runs :
       /\ runs[r].pc = "thrown"
       /\ runs[r].retries = 1
       /\ Len(runs[r].trace.waits) = 2
       /\ runs[r].trace.waits[1].error = HttpError(429, NoHeader)
       /\ runs[r].trace.waits[2].error = NetworkError
       /\ runs[r].trace.thrown = HttpError(404, NoHeader)
       /\ metrics.failedRequests = 3
       /\ metrics.rateLimitedRequests = 1

----------------------------------------------------------------------------
(* A client configured with no retries *)

\* C32: an invocation of a client constructed with maxRetries 0 calls fn() once:
\* when that call rejects, retryable or not, the invocation throws the error at
\* once, without a sleep before a retry and without a second call.
C32_NoRetryAtZero ==
    \A r \in DOMAIN runs :
       ConfiguredMaxRetries = 0
          => /\ runs[r].trace.calls <= 1
             /\ runs[r].trace.waits = <<>>
             /\ runs[r].trace.failed > 0
                  => runs[r].pc = "thrown" /\ runs[r].trace.thrown = runs[r].trace.error

----------------------------------------------------------------------------
(* What the windows hold *)

\* C33: after a checkRateLimit at now that got as far as cleanupTimestamps, every
\* timestamp t left in a window is younger than the window's horizon:
\* now - t < 1000, 60000 or 3600000; one that is exactly a horizon old is gone.
C33_PrunedToHorizon ==
    [][(checkRateLimit /\ last'.why # "breaker")
         => \A w \in Windows :
               \A i \in 1..Len(Stored(w)') : now - Stored(w)'[i] < Horizon(w)]_vars

\* a checkRateLimit one second after an admission: the timestamp of that admission,
\* exactly 1000 ms old, is no longer in the second window and still in the minute
\* window
C33_Witness ==
    /\ last.op = "checkRateLimit"
    /\ last.why # "breaker"
    /\ last.at = now
    /\ now = SecondMs
    /\ admitLog # <<>> /\ admitLog[1] = 0
    /\ \A i \in 1..Len(requestsPerSecond) : requestsPerSecond[i] # 0
    /\ requestsPerMinute # <<>> /\ requestsPerMinute[1] = 0

\* C34: getRecommendedDelay() answers for the instant it is called at: with the
\* breaker closed, fewer than maxRequestsPerSecond admissions within the last
\* 1000 ms and the admissions of the last minute and of the last hour below 90% of
\* their capacities, it returns 0, whatever the windows held at an earlier instant.
C34_DelayOfCurrentWindows ==
    [][(/\ getRecommendedDelay
        /\ ~metrics.circuitBreakerOpen
        /\ AdmittedIn(now, SecondMs) < config.maxRequestsPerSecond
        /\ 10 * AdmittedIn(now, MinuteMs) < 9 * config.maxRequestsPerMinute
        /\ 10 * AdmittedIn(now, HourMs) < 9 * config.maxRequestsPerHour)
         => last'.delay = 0]_vars

----------------------------------------------------------------------------
(* The sleep after a rejected checkRateLimit *)

\* C35: a getRecommendedDelay() made at the instant of a checkRateLimit() that
\* returned false, with no other call between them, returns more than 0: the rest
\* of the reset time, 1000, 600 or 3600; so an invocation whose checkRateLimit was
\* rejected sleeps until a later instant before it checks again.
C35_DenialGivesPositiveDelay ==
    /\ [][(getRecommendedDelay /\ last.op = "checkRateLimit" /\ ~last.ok /\ last.at = now)
            => /\ last'.delay > 0
               /\ last.why = "breaker"
                    => last'.delay = circuitBreakerOpenTime + circuitBreakerResetTime - now
               /\ last.why # "breaker" => last'.delay \in {DelaySecond, DelayMinute, DelayHour}]_vars
    /\ [][\A r \in DOMAIN runs :
            (runs[r].pc = "admitting" /\ runs'[r].pc = "delayed")
               => /\ ~runs[r].canProceed
                  /\ last'.delay > 0
                  /\ runs'[r].wakeAt > now]_vars

\* an invocation rejected by the minute window, with room in the second window,
\* sleeps 600 ms
C35_Witness ==
    \E r \in DOMAIN runs :
       /\ runs[r].pc = "delayed"
       /\ last.op = "getRecommendedDelay" /\ last.at = now
       /\ denied = [why |-> "minute", at |-> now]
       /\ last.delay = DelayMinute
       /\ runs[r].wakeAt = now + DelayMinute

----------------------------------------------------------------------------
(* The breaker flag and the count of failures *)

\* C36: in every reachable state the breaker flag is set exactly when
\* consecutiveFailures is at least circuitBreakerThreshold: whatever clears the flag
\* (the passed reset time, recordSuccess, resetMetrics) zeroes the count, and the
\* recordFailure(true) that brings the count to the threshold sets the flag.
C36_FlagIffThreshold ==
    metrics.circuitBreakerOpen <=> consecutiveFailures >= config.circuitBreakerThreshold

\* a throttling failure recorded on the open breaker: the count is past the
\* threshold and the flag is set
C36_Witness ==
    /\ last.op = "recordFailure" /\ last.ok
    /\ metrics.circuitBreakerOpen
    /\ consecutiveFailures = config.circuitBreakerThreshold + 1
    /\ opened.at # Undefined

----------------------------------------------------------------------------
(* The three windows against each other *)

\* how often the timestamp t occurs in the window s
Occurrences(s, t) == Cardinality({i \in DOMAIN s : s[i] = t})

\* every timestamp occurs in s at most as often as in t
SubMultiset(s, t) ==
    \A i \in DOMAIN s : Occurrences(s, s[i]) <= Occurrences(t, s[i])

\* the timestamps of s in non-decreasing order
NonDecreasing(s) == \A i, j \in DOMAIN s : i < j => s[i] <= s[j]

\* C37: in every reachable state the timestamps of the second window are a
\* sub-multiset of those of the minute window, and those of the minute window of
\* those of the hour window, so that the lengths are ordered the same way; and
\* each window holds its timestamps in non-decreasing order.
C37_WindowsNested ==
    /\ SubMultiset(requestsPerSecond, requestsPerMinute)
    /\ SubMultiset(requestsPerMinute, requestsPerHour)
    /\ Len(requestsPerSecond) <= Len(requestsPerMinute)
    /\ Len(requestsPerMinute) <= Len(requestsPerHour)
    /\ \A w \in Windows : NonDecreasing(Stored(w))

\* after admissions a second and a minute apart the three windows differ: the
\* second window holds the last admission, the minute window more, the hour
\* window more again
C37_Witness ==
    /\ last.op = "checkRateLimit" /\ last.ok
    /\ requestsPerSecond = <<now>>
    /\ Len(requestsPerMinute) > Len(requestsPerSecond)
    /\ Len(requestsPerHour) > Len(requestsPerMinute)
    /\ requestsPerHour[1] < requestsPerMinute[1]

----------------------------------------------------------------------------
(* The counters of a RateLimiter used through the client only *)

\* no invocation is between its call and its return or throw
NoneInFlight == \A r \in DOMAIN runs : runs[r].pc \in {"idle", "returned", "thrown"}

\* C38: with the RateLimiter used through invocations of the client only and
\* never reset, successfulRequests + failedRequests never exceeds totalRequests,
\* however the invocations interleave, and equals it whenever no invocation is in
\* flight: every admitted attempt is recorded once, as a success or as a failure.
C38_AttemptsAccounted ==
    /\ metrics.successfulRequests + metrics.failedRequests <= metrics.totalRequests
    /\ NoneInFlight
         => metrics.successfulRequests + metrics.failedRequests = metrics.totalRequests

----------------------------------------------------------------------------
(* One RateLimiter per process *)

\* C39: getRateLimiter() returns the same RateLimiter at every call: at most one
\* is ever constructed, with the configuration of the first call, and a
\* configuration passed to a later call changes nothing; every ApiClient
\* constructed holds that RateLimiter, so that the admissions of the invocations
\* of all clients are in its windows and counted in its totalRequests.
C39_OneRateLimiter ==
    /\ [](/\ instances <= 1
          /\ rateLimiterInstance \in {Null, 1}
          /\ \A c \in DOMAIN clients : clients[c] \in {Null, rateLimiterInstance}
          /\ requestsPerHour = admitLog
          /\ metrics.totalRequests = Len(admitLog))
    /\ [][/\ rateLimiterInstance # Null
               => rateLimiterInstance' = rateLimiterInstance /\ config' = config
          /\ (rateLimiterInstance = Null /\ rateLimiterInstance' # Null)
               => \E cfg \in passed' : config' = RateLimiter(cfg)]_vars

\* both clients are constructed, getRateLimiter was also called with a
\* configuration other than the one in force, and the invocation on the second
\* client, which has not failed, is kept waiting by the breaker that the 429 met by
\* the invocation on the first client opened
C39_Witness ==
    /\ clients["c1"] = 1 /\ clients["c2"] = 1
    /\ \E cfg \in passed : RateLimiter(cfg) # config
    /\ runs["r1"].pc = "waiting"
    /\ runs["r2"].pc = "delayed"
    /\ runs["r2"].retries = client.maxRetries
    /\ metrics.circuitBreakerOpen
    /\ last.op = "getRecommendedDelay" /\ last.ok

====
